---------------------------- MODULE Spec2Model ----------------------------
(***************************************************************************)
(* Conversation orchestration of the challenge-specification agent:        *)
(* ScopingNode (src/app/agents/nodes/scoping_node.py), SchemaNode          *)
(* (src/app/agents/nodes/schema_node.py) and SchemaService                 *)
(* (src/app/schemas/schema_service.py); and the /chat boundary             *)
(* (src/main.py, src/app/main.py) over the single-node flow                *)
(* (src/app/agent/langflow.py).                                            *)
(*                                                                         *)
(* Texts (user input, oracle replies, stored values) are sequences of      *)
(* tokens.  A turn takes a user input and, when the handler calls the      *)
(* oracle, one oracle reply; both are drawn from fixed sets of texts.      *)
(* Confidences are kept in tenths (6 is 0.6).                              *)
(***************************************************************************)
EXTENDS Integers, Sequences, FiniteSets, TLC

VARIABLES
    phase,             \* "next_node" returned by the previous turn
    scope_confirmed,   \* ConversationState.scope_confirmed
    user_responses,    \* ConversationState.user_responses: key -> value
    project_stage,     \* ConversationState.project_stage
    platform,          \* ConversationState.platform
    challenge_type,    \* ConversationState.challenge_type
    schema,            \* ConversationState.schema: <<>> or <<schema>>
    required_fields,   \* "required_fields" entry of the state dictionary
    current_field,     \* ConversationState.current_field
    completed_fields,  \* ConversationState.completed_fields
    reasoning_traces,  \* ConversationState.reasoning_traces
    user_input,        \* full_state["user_input"] of the last turn
    llm_response,      \* response.content of the last turn's oracle call
    oracle_calls,      \* number of llm.invoke calls made by the last turn
    handler,           \* handler that ran the last turn
    response,          \* "response" returned by the last turn
    raised,            \* the exception the last turn raised, or None
    final_spec,        \* final_spec of the last boundary response, or NoSpec
    entry,             \* the /chat handler that serves the requests, or None
    checkpoint,        \* MemorySaver: thread_id -> stored field_data, is_final
    requests,          \* the /chat requests: where each is, and what it holds
    base,              \* checkpoint when the current round of requests began
    rounds,            \* rounds of requests served
    log                \* entries of LOG_FILE (reasoning_traces.json)

node_vars == <<phase, scope_confirmed, user_responses, project_stage, platform,
               challenge_type, schema, required_fields, current_field,
               completed_fields, reasoning_traces, user_input, llm_response,
               oracle_calls, handler, response, raised, final_spec>>

flow_vars == <<entry, checkpoint, requests, base, rounds, log>>

vars == <<node_vars, flow_vars>>

conv == <<scope_confirmed, user_responses, project_stage, platform,
          challenge_type, schema, required_fields, current_field,
          completed_fields, reasoning_traces>>

None == "None"

EmptyDict == [k \in {} |-> <<>>]

Range(s) == {s[i] : i \in 1..Len(s)}

IsPrefix(s, t) == Len(s) <= Len(t) /\ SubSeq(t, 1, Len(s)) = s

Last(s) == s[Len(s)]

(***************************************************************************)
(* SchemaService: the default catalog.                                     *)
(***************************************************************************)

Platforms == {"Topcoder", "Kaggle", "HeroX", "Zindi", "Internal"}

ChallengeTypes == {"Design", "Development", "Data Science", "First2Finish", "Bug Hunt"}

FieldDef(req, type) == [required |-> req, field_type |-> type]

\* Each schema: the field keys in declared order and the definition of each.
TopcoderDesign ==
    [platform |-> "Topcoder", challenge_type |-> "Design",
     order |-> <<"title", "overview", "objectives", "tech_stack", "timeline",
                 "prize_structure", "judging_criteria">>,
     fields |-> [title |-> FieldDef(TRUE, "text"),
                 overview |-> FieldDef(TRUE, "text"),
                 objectives |-> FieldDef(TRUE, "array"),
                 tech_stack |-> FieldDef(FALSE, "array"),
                 timeline |-> FieldDef(TRUE, "object"),
                 prize_structure |-> FieldDef(TRUE, "object"),
                 judging_criteria |-> FieldDef(TRUE, "array")]]

TopcoderDevelopment ==
    [platform |-> "Topcoder", challenge_type |-> "Development",
     order |-> <<"title", "overview", "objectives", "tech_stack", "timeline",
                 "prize_structure", "judging_criteria",
                 "submission_requirements", "testing_requirements">>,
     fields |-> [title |-> FieldDef(TRUE, "text"),
                 overview |-> FieldDef(TRUE, "text"),
                 objectives |-> FieldDef(TRUE, "array"),
                 tech_stack |-> FieldDef(TRUE, "array"),
                 timeline |-> FieldDef(TRUE, "object"),
                 prize_structure |-> FieldDef(TRUE, "object"),
                 judging_criteria |-> FieldDef(TRUE, "array"),
                 submission_requirements |-> FieldDef(TRUE, "array"),
                 testing_requirements |-> FieldDef(FALSE, "text")]]

KaggleDataScience ==
    [platform |-> "Kaggle", challenge_type |-> "Data Science",
     order |-> <<"title", "overview", "objectives", "dataset_description",
                 "evaluation_metric", "timeline", "prize_structure",
                 "submission_format">>,
     fields |-> [title |-> FieldDef(TRUE, "text"),
                 overview |-> FieldDef(TRUE, "text"),
                 objectives |-> FieldDef(TRUE, "array"),
                 dataset_description |-> FieldDef(TRUE, "text"),
                 evaluation_metric |-> FieldDef(TRUE, "text"),
                 timeline |-> FieldDef(TRUE, "object"),
                 prize_structure |-> FieldDef(TRUE, "object"),
                 submission_format |-> FieldDef(TRUE, "text")]]

\* _create_default_schemas: the schema files written when none exist
default_schemas == {TopcoderDesign, TopcoderDevelopment, KaggleDataScience}

\* _load_schemas: key "<platform>_<challenge_type>" of a loaded schema
schema_key(p, c) == <<p, "_", c>>

\* As get_schema, with the schemas keyed by challenge type alone
get_schema_by_challenge_type(p, c) ==
    LET found == {sch \in default_schemas : sch.challenge_type = c}
    IN  IF found = {} THEN <<>> ELSE <<CHOOSE sch \in found : TRUE>>

\* get_schema: the schema stored under the pair's key (<<schema>>), or
\* nothing (<<>>) when no schema has that key
get_schema(p, c) ==
    LET found == {sch \in default_schemas :
                     schema_key(sch.platform, sch.challenge_type) = schema_key(p, c)}
    IN  IF found = {} THEN <<>> ELSE <<CHOOSE sch \in found : TRUE>>

\* As get_required_fields, with the optional fields picked
get_required_fields_optional(sch) ==
    SelectSeq(sch.order, LAMBDA f : ~sch.fields[f].required)

\* get_required_fields: the required field names, in declared order
get_required_fields(sch) ==
    SelectSeq(sch.order, LAMBDA f : sch.fields[f].required)

\* get_field_definition: schema.fields.get(field_name)
get_field_definition(sch, f) ==
    IF f \in DOMAIN sch.fields THEN <<sch.fields[f]>> ELSE <<>>

(***************************************************************************)
(* Python values that reach the conversation state.                        *)
(***************************************************************************)

Str(text) == [kind |-> "str", text |-> text]

Num(tok) == [kind |-> "number", text |-> <<tok>>]

PyNone == [kind |-> "none", text |-> <<>>]

PyList == [kind |-> "list", text |-> <<>>]

Dict(members) == [kind |-> "dict", text |-> <<>>, members |-> members]

\* Tenths of a number token
Tenths(tok) ==
    CASE tok = "0.6" -> 6
      [] tok = "0.7" -> 7
      [] tok = "0.8" -> 8
      [] tok = "0.9" -> 9
      [] tok = "42" -> 420

(***************************************************************************)
(* The user's texts.  A text is a sequence of chunks; the chunks of a      *)
(* question indicator are tokens of their own, whether they stand alone    *)
(* ("What x?") or inside a longer word ("somewhat").                       *)
(***************************************************************************)

UserInputs ==
    { <<>>,
      <<"x">>,
      <<"What", " ", "x", "?">>,
      <<"some", "what", " ", "x">> }

\* str.lower()
Lower(tok) ==
    CASE tok = "What" -> "what"
      [] tok = "SCOPE_CONFIRMED:" -> "scope_confirmed:"
      [] OTHER -> tok

question_indicators ==
    {"?", "what", "how", "when", "where", "why", "which", "can you", "could you"}

\* _is_question_response: some indicator is a substring of the lowered text
is_question_response(text) ==
    \E i \in 1..Len(text) : Lower(text[i]) \in question_indicators

(***************************************************************************)
(* The oracle's replies in the scoping dialogue, and their parsing.        *)
(***************************************************************************)

ScopingReplies ==
    { <<"app">>,
      <<"idea", "sp", "app">>,
      <<"SCOPE_CONFIRMED:", "sp", "app">>,
      <<"build", "nl", "SCOPE_CONFIRMED:", "nl", "app", "sp", "nl", "idea">>,
      <<"scope_confirmed:", "sp", "sp">>,
      <<"SCOPE_CONFIRMED:", "nl">> }

\* \s
Whitespace == {"sp", "nl"}

\* number of whitespace tokens of s from position i on
RECURSIVE WhitespaceRun(_, _)
WhitespaceRun(s, i) ==
    IF i <= Len(s) /\ s[i] \in Whitespace THEN 1 + WhitespaceRun(s, i + 1) ELSE 0

\* number of tokens of s from position i on, up to the end of the line
RECURSIVE LineRun(_, _)
LineRun(s, i) ==
    IF i <= Len(s) /\ s[i] # "nl" THEN 1 + LineRun(s, i + 1) ELSE 0

\* str.strip()
RECURSIVE Strip(_)
Strip(s) ==
    IF s = <<>> THEN s
    ELSE IF Head(s) \in Whitespace THEN Strip(Tail(s))
    ELSE IF Last(s) \in Whitespace THEN Strip(SubSeq(s, 1, Len(s) - 1))
    ELSE s

\* The ways SCOPE_CONFIRMED:\s*(.+) matches with the marker at position m:
\* \s* takes j whitespace tokens and (.+) starts right after them, on a token
\* that is not a newline.
ScopeMatchStarts(s, m) ==
    IF Lower(s[m]) # "scope_confirmed:" THEN {}
    ELSE {m + j + 1 : j \in {k \in 0..WhitespaceRun(s, m + 1) :
                                 m + k + 1 <= Len(s) /\ s[m + k + 1] # "nl"}}

Max(S) == CHOOSE x \in S : \A y \in S : y <= x

Min(S) == CHOOSE x \in S : \A y \in S : x <= y

\* As scope_match, for a pattern that allows no whitespace after the marker
scope_match_no_whitespace(s) ==
    LET ms == {m \in 1..Len(s) : /\ Lower(s[m]) = "scope_confirmed:"
                                 /\ m + 1 <= Len(s) /\ s[m + 1] # "nl"}
    IN  IF ms = {} THEN <<>>
        ELSE <<SubSeq(s, Min(ms) + 1, Min(ms) + LineRun(s, Min(ms) + 1))>>

\* re.search(r'SCOPE_CONFIRMED:\s*(.+)', response, re.IGNORECASE): group(1)
\* of the leftmost match, \s* and .+ greedy; <<>> when there is no match,
\* <<group>> otherwise.
scope_match(s) ==
    LET ms == {m \in 1..Len(s) : ScopeMatchStarts(s, m) # {}}
    IN  IF ms = {} THEN <<>>
        ELSE LET start == Max(ScopeMatchStarts(s, Min(ms)))
             IN  <<SubSeq(s, start, start + LineRun(s, start) - 1)>>

\* stage_patterns, in the order of the dictionary
stage_patterns ==
    << [stage |-> "idea", words |-> {"idea", "concept", "brainstorm"}],
       [stage |-> "design", words |-> {"design", "mockup", "wireframe", "prototype"}],
       [stage |-> "development", words |-> {"develop", "code", "implement", "build"}],
       [stage |-> "testing", words |-> {"test", "qa", "debug"}],
       [stage |-> "poc", words |-> {"poc", "proof of concept", "pilot"}],
       [stage |-> "existing", words |-> {"existing", "already", "current"}] >>

\* The stage of the first pattern that the lowered response matches, or None
stage_of(s) ==
    LET hits == {i \in 1..Len(stage_patterns) :
                    \E k \in 1..Len(s) : Lower(s[k]) \in stage_patterns[i].words}
    IN  IF hits = {} THEN None ELSE stage_patterns[Min(hits)].stage

DefaultScopingConfidence == 7

ScopeConfirmedConfidence == 9

\* As parse_scoping_response, with the whole reply taken as a confirmation
parse_scoping_response_any_reply(resp, responses) ==
    [confirmed |-> TRUE,
     user_responses |->
         [k \in DOMAIN responses \cup {"confirmed_scope"} |->
             IF k = "confirmed_scope" THEN Str(Strip(resp)) ELSE responses[k]],
     reasoning |-> <<"User confirmed scope: ">> \o Strip(resp),
     confidence |-> ScopeConfirmedConfidence,
     project_stage |-> stage_of(resp)]

\* _parse_scoping_response: state_updates (as the sets of updated keys and
\* their values), reasoning and confidence
parse_scoping_response(resp, responses) ==
    LET m == scope_match(resp)
        confirmed_scope == Strip(m[1])
    IN  [confirmed |-> m # <<>>,
         user_responses |->
             IF m # <<>>
             THEN [k \in DOMAIN responses \cup {"confirmed_scope"} |->
                      IF k = "confirmed_scope" THEN Str(confirmed_scope)
                      ELSE responses[k]]
             ELSE responses,
         reasoning |->
             IF m # <<>> THEN <<"User confirmed scope: ">> \o confirmed_scope
             ELSE <<>>,
         confidence |->
             IF m # <<>> THEN ScopeConfirmedConfidence ELSE DefaultScopingConfidence,
         project_stage |-> stage_of(resp)]

(***************************************************************************)
(* The oracle's replies in schema selection, and their parsing.  A reply   *)
(* is a sequence of words (\w+), "-" and the marker; blanks between them   *)
(* are left out, as \s* skips them.                                        *)
(***************************************************************************)

SelectionReplies ==
    { <<"RECOMMENDATION:", "Topcoder", "-", "Design">>,
      <<"RECOMMENDATION:", "Topcoder", "-", "Development">>,
      <<"RECOMMENDATION:", "HeroX", "-", "Design">>,
      <<"RECOMMENDATION:", "Kaggle", "-", "Data", "Science">>,
      <<"RECOMMENDATION:", "Anywhere", "-", "Design">>,
      <<"Which", "platform", "-", "Topcoder">> }

\* \w+
IsWord(tok) == tok \notin {"RECOMMENDATION:", "-"}

\* re.search(r'RECOMMENDATION:\s*(\w+)\s*-\s*(\w+)', ai_response): groups 1
\* and 2 of the leftmost match (<<>> when there is none)
recommendation_match(s) ==
    LET ms == {m \in 1..Len(s) :
                  /\ s[m] = "RECOMMENDATION:"
                  /\ m + 3 <= Len(s)
                  /\ IsWord(s[m + 1]) /\ s[m + 2] = "-" /\ IsWord(s[m + 3])}
    IN  IF ms = {} THEN <<>> ELSE <<s[Min(ms) + 1], s[Min(ms) + 3]>>

\* As valid_recommendation, with the platform not looked at
valid_recommendation_type_only(s) ==
    /\ recommendation_match(s) # <<>>
    /\ recommendation_match(s)[2] \in ChallengeTypes

\* Platform(group 1) and ChallengeType(group 2) both succeed (no ValueError)
valid_recommendation(s) ==
    /\ recommendation_match(s) # <<>>
    /\ recommendation_match(s)[1] \in Platforms
    /\ recommendation_match(s)[2] \in ChallengeTypes

(***************************************************************************)
(* The oracle's replies to the extraction prompt, and json.loads.          *)
(***************************************************************************)

ExtractionReplies ==
    { <<"Sure", "{", "\"value\"", ":", "\"v\"", "}">>,
      <<"{", "\"value\"", ":", "\"v\"", ",", "}">>,
      <<"42">>,
      <<"[", "]">>,
      <<"null">>,
      <<"{", "\"confidence\"", ":", "0.9", "}">>,
      <<"{", "\"value\"", ":", "\"v\"", ",", "\"confidence\"", ":", "0.9", ",",
        "\"reasoning\"", ":", "\"r\"", "}">> }

StringTokens == {"\"value\"", "\"confidence\"", "\"reasoning\"", "\"v\"", "\"r\""}

NumberTokens == {"0.9", "42"}

\* The text of a JSON string token
Unquote(tok) ==
    CASE tok = "\"value\"" -> "value"
      [] tok = "\"confidence\"" -> "confidence"
      [] tok = "\"reasoning\"" -> "reasoning"
      [] tok = "\"v\"" -> "v"
      [] tok = "\"r\"" -> "r"

IsScalarToken(tok) == tok = "null" \/ tok \in NumberTokens \/ tok \in StringTokens

Scalar(tok) ==
    IF tok = "null" THEN PyNone
    ELSE IF tok \in NumberTokens THEN Num(tok)
    ELSE Str(<<Unquote(tok)>>)

JSONDecodeError == [kind |-> "JSONDecodeError", text |-> <<>>]

\* The members of a JSON object from position i of its body on, added to acc;
\* ok is false when the body is no member list.
RECURSIVE json_members(_, _, _)
json_members(b, i, acc) ==
    IF i + 2 > Len(b) \/ b[i] \notin StringTokens \/ b[i + 1] # ":"
    THEN [ok |-> FALSE, members |-> acc]
    ELSE LET isList == b[i + 2] = "[" /\ i + 3 <= Len(b) /\ b[i + 3] = "]"
             next == IF isList THEN i + 4 ELSE i + 3
             key == Unquote(b[i])
             val == IF isList THEN PyList ELSE Scalar(b[i + 2])
             acc2 == [k \in DOMAIN acc \cup {key} |-> IF k = key THEN val ELSE acc[k]]
         IN  IF ~isList /\ ~IsScalarToken(b[i + 2]) THEN [ok |-> FALSE, members |-> acc]
             ELSE IF next > Len(b) THEN [ok |-> TRUE, members |-> acc2]
             ELSE IF b[next] = "," THEN json_members(b, next + 1, acc2)
             ELSE [ok |-> FALSE, members |-> acc]

\* json.loads(content): the value, or JSONDecodeError
json_loads(s) ==
    IF Len(s) = 1 /\ IsScalarToken(s[1]) THEN Scalar(s[1])
    ELSE IF s = <<"[", "]">> THEN PyList
    ELSE IF s = <<"{", "}">> THEN Dict(EmptyDict)
    ELSE IF Len(s) > 2 /\ s[1] = "{" /\ s[Len(s)] = "}"
         THEN LET r == json_members(SubSeq(s, 2, Len(s) - 1), 1, EmptyDict)
              IN  IF r.ok THEN Dict(r.members) ELSE JSONDecodeError
    ELSE JSONDecodeError

\* As process_answer_with_llm, without the except clause
process_answer_with_llm_no_fallback(user_answer, content) == json_loads(content)

FallbackConfidence == "0.6"

\* _process_answer_with_llm, after the oracle call: the parsed reply, or the
\* fallback record when json.loads raises
process_answer_with_llm(user_answer, content) ==
    IF json_loads(content) # JSONDecodeError THEN json_loads(content)
    ELSE Dict([value |-> Str(user_answer),
               confidence |-> Num(FallbackConfidence),
               reasoning |-> Str(<<"Direct user input">>)])

DefaultAnswerConfidence == "0.8"

(***************************************************************************)
(* SchemaNode._get_next_field.  sch is <<>> or <<schema>>.                 *)
(***************************************************************************)

\* As get_next_field, with the optional pass not looking at completed_fields
get_next_field_any_field(completed, required, sch) ==
    LET todo(fields) == SelectSeq(fields, LAMBDA f : f \notin Range(completed))
    IN  IF todo(required) # <<>> THEN todo(required)[1]
        ELSE IF sch # <<>> /\ sch[1].order # <<>> THEN sch[1].order[1]
        ELSE None

\* As get_next_field, without the pass over the optional fields
get_next_field_required_only(completed, required, sch) ==
    LET todo(fields) == SelectSeq(fields, LAMBDA f : f \notin Range(completed))
    IN  IF todo(required) # <<>> THEN todo(required)[1] ELSE None

get_next_field(completed, required, sch) ==
    LET todo(fields) == SelectSeq(fields, LAMBDA f : f \notin Range(completed))
    IN  IF todo(required) # <<>> THEN todo(required)[1]
        ELSE IF sch # <<>> /\ todo(sch[1].order) # <<>> THEN todo(sch[1].order)[1]
        ELSE None

(***************************************************************************)
(* The conversation state between turns.                                   *)
(***************************************************************************)

\* The fields ConversationState declares.  A node rebuilds the state with
\* ConversationState(**conversation_state) and hands state.dict() on, so an
\* entry of the dictionary that is no declared field does not survive the
\* next turn.
ConversationStateFields ==
    {"user_input", "project_stage", "platform", "challenge_type",
     "scope_confirmed", "schema", "current_field", "completed_fields",
     "user_responses", "reasoning_traces"}

\* state.dict().get("required_fields", [])
reloaded_required_fields(required) ==
    IF "required_fields" \in ConversationStateFields THEN required ELSE <<>>

\* The phases whose turn runs ScopingNode, and those whose turn runs SchemaNode
ScopingNodePhases == {"scoping", "schema_selection"}

SchemaNodePhases == {"schema_loading", "field_questions", "spec_generation"}

\* The boundary reports a final specification once the turn ends in
\* spec_generation
is_final(next_node) == next_node = "spec_generation"

\* final_spec of the boundary response: one entry per key of the collected data
final_spec_of(responses) == [field \in DOMAIN responses |-> responses[field]]

\* As append_trace, with the list replaced by the new trace
append_trace_replacing(traces, trace) == <<trace>>

\* reasoning_traces.append(trace)
append_trace(traces, trace) == Append(traces, trace)

ReasoningTrace(field, source, confidence, reasoning) ==
    [field |-> field, source |-> source, confidence |-> confidence,
     reasoning |-> reasoning]

(***************************************************************************)
(* The single-node flow (src/app/agent/langflow.py) behind the /chat       *)
(* boundary (src/main.py, src/app/main.py): the state kept per thread_id.  *)
(* A field_data dictionary is a function from field names to values.       *)
(***************************************************************************)

Threads == {"default", "other"}

Requests == {1, 2}

\* The two /chat handlers of the repository; one of them serves a run
Entries == {"src/main.py", "src/app/main.py"}

\* initial_state of the graph: what a thread without checkpoint starts from
initial_state == [field_data |-> EmptyDict, is_final |-> FALSE]

\* What chat returns besides the text of the last message: the final_spec
\* key, when present, and the fields its reasoning_trace has an entry for
NoResponse == [final_spec |-> <<>>, reasoning_trace |-> <<>>]

NoRequest ==
    [pc |-> "idle", thread |-> "default",
     prior |-> initial_state, state |-> initial_state,
     reply |-> [kind |-> "none", fields |-> EmptyDict, docs |-> 0, kept |-> FALSE],
     logs |-> <<>>, final |-> initial_state, response |-> NoResponse,
     raised |-> None]

\* No request is being served, no thread has a checkpoint of its own
FlowIdle ==
    /\ entry = None
    /\ checkpoint = [t \in Threads |-> initial_state]
    /\ requests = [r \in Requests |-> NoRequest]
    /\ base = checkpoint
    /\ rounds = 0
    /\ log = <<>>

Init ==
    /\ phase = "scoping"
    /\ scope_confirmed = FALSE
    /\ user_responses = EmptyDict
    /\ project_stage = None
    /\ platform = None
    /\ challenge_type = None
    /\ schema = <<>>
    /\ required_fields = <<>>
    /\ current_field = None
    /\ completed_fields = <<>>
    /\ reasoning_traces = <<>>
    /\ user_input = <<>>
    /\ llm_response = <<>>
    /\ oracle_calls = 0
    /\ handler = None
    /\ response = <<>>
    /\ raised = None
    /\ final_spec = <<>>
    /\ FlowIdle

\* The turn returns: the boundary stores next_node and answers the request.
Returns(h, u, content, calls, next_node, text) ==
    /\ handler' = h
    /\ user_input' = u
    /\ llm_response' = content
    /\ oracle_calls' = calls
    /\ phase' = next_node
    /\ response' = text
    /\ raised' = None
    /\ final_spec' = IF is_final(next_node) THEN <<final_spec_of(user_responses')>>
                     ELSE <<>>
    /\ UNCHANGED flow_vars

\* The exception of an oracle call that fails (llm.invoke raises)
InvokeError == "InvokeError"

\* The exception of a query embedding that fails (embedding_model.encode
\* raises)
EncodeError == "EncodeError"

\* What can happen to a suggestion search
SearchOutcomes == {"found", "search_error", "encode_error"}

\* RAGService.search_similar_challenges: the exception it raises (or None)
\* and the results it returns
search_similar_challenges(outcome) ==
    [raised |-> IF outcome = "encode_error" THEN EncodeError ELSE None,
     results |-> IF outcome = "found" THEN <<"challenge">> ELSE <<>>]

\* Some search outcome lets the handler go on
SearchReturns ==
    \E outcome \in SearchOutcomes : search_similar_challenges(outcome).raised = None

\* The turn raises: nothing is returned and the stored state stays as it was.
Raises(h, u, content, calls, exception) ==
    /\ handler' = h
    /\ user_input' = u
    /\ llm_response' = content
    /\ oracle_calls' = calls
    /\ raised' = exception
    /\ response' = <<>>
    /\ final_spec' = <<>>
    /\ UNCHANGED <<phase, conv>>
    /\ UNCHANGED flow_vars

(***************************************************************************)
(* ScopingNode                                                             *)
(***************************************************************************)

\* As scoping_handler, with the dialogue run whatever scope_confirmed is
scoping_handler_always_dialogue(confirmed) == "_handle_scoping_dialogue"

\* ScopingNode.__call__: the handler that the node runs
scoping_handler(confirmed) ==
    IF ~confirmed THEN "_handle_scoping_dialogue" ELSE "_handle_schema_selection"

scoping_next_node(confirmed) == IF confirmed THEN "schema_selection" ELSE "scoping"

ScopingDialogue ==
    /\ phase \in ScopingNodePhases
    /\ scoping_handler(scope_confirmed) = "_handle_scoping_dialogue"
    /\ \/ \E u \in UserInputs, outcome \in SearchOutcomes :
             /\ search_similar_challenges(outcome).raised # None
             /\ Raises("_handle_scoping_dialogue", u, <<>>, 0,
                       search_similar_challenges(outcome).raised)
       \/ \E u \in UserInputs :
             /\ SearchReturns
             /\ Raises("_handle_scoping_dialogue", u, <<>>, 1, InvokeError)
       \/ \E u \in UserInputs, ai_response \in ScopingReplies :
          LET parsed_info == parse_scoping_response(ai_response, user_responses)
          IN  /\ SearchReturns
              /\ scope_confirmed' = (parsed_info.confirmed \/ scope_confirmed)
              /\ user_responses' = parsed_info.user_responses
              /\ project_stage' = IF parsed_info.project_stage # None
                                  THEN parsed_info.project_stage
                                  ELSE project_stage
              /\ reasoning_traces' =
                     IF parsed_info.reasoning # <<>>
                     THEN append_trace(reasoning_traces,
                              ReasoningTrace("scoping", <<"scoping_dialogue">>,
                                             parsed_info.confidence,
                                             parsed_info.reasoning))
                     ELSE reasoning_traces
              /\ required_fields' = reloaded_required_fields(required_fields)
              /\ UNCHANGED <<platform, challenge_type, schema, current_field,
                             completed_fields>>
              /\ Returns("_handle_scoping_dialogue", u, ai_response, 1,
                         scoping_next_node(scope_confirmed'), ai_response)

SchemaSelection ==
    /\ phase \in ScopingNodePhases
    /\ scoping_handler(scope_confirmed) = "_handle_schema_selection"
    /\ \/ \E u \in UserInputs :
             Raises("_handle_schema_selection", u, <<>>, 1, InvokeError)
       \/ \E u \in UserInputs, ai_response \in SelectionReplies :
          /\ IF valid_recommendation(ai_response)
             THEN /\ platform' = recommendation_match(ai_response)[1]
                  /\ challenge_type' = recommendation_match(ai_response)[2]
             ELSE UNCHANGED <<platform, challenge_type>>
          /\ required_fields' = reloaded_required_fields(required_fields)
          /\ UNCHANGED <<scope_confirmed, user_responses, project_stage, schema,
                         current_field, completed_fields, reasoning_traces>>
          /\ Returns("_handle_schema_selection", u, ai_response, 1,
                     IF valid_recommendation(ai_response) THEN "schema_loading"
                     ELSE "schema_selection",
                     ai_response)

(***************************************************************************)
(* SchemaNode                                                              *)
(***************************************************************************)

LoadSchema ==
    /\ phase \in SchemaNodePhases
    /\ schema = <<>>
    /\ \E u \in UserInputs :
          IF platform = None \/ challenge_type = None
          THEN /\ required_fields' = reloaded_required_fields(required_fields)
               /\ UNCHANGED <<scope_confirmed, user_responses, project_stage,
                              platform, challenge_type, schema, current_field,
                              completed_fields, reasoning_traces>>
               /\ Returns("_load_schema", u, <<>>, 0, "scoping",
                          <<"I need to know the platform and challenge type first.">>)
          ELSE IF get_schema(platform, challenge_type) = <<>>
          THEN /\ required_fields' = reloaded_required_fields(required_fields)
               /\ UNCHANGED <<scope_confirmed, user_responses, project_stage,
                              platform, challenge_type, schema, current_field,
                              completed_fields, reasoning_traces>>
               /\ Returns("_load_schema", u, <<>>, 0, "scoping",
                          <<"I don't have a schema for ", platform, challenge_type>>)
          ELSE LET sch == get_schema(platform, challenge_type)
                   required == get_required_fields(sch[1])
                   next_field == get_next_field(completed_fields, required, sch)
               IN  /\ schema' = sch
                   /\ required_fields' = required
                   /\ current_field' = IF next_field # None THEN next_field
                                       ELSE current_field
                   /\ UNCHANGED <<scope_confirmed, user_responses, project_stage,
                                  platform, challenge_type, completed_fields,
                                  reasoning_traces>>
                   /\ Returns("_load_schema", u, <<>>, 0, "field_questions",
                              <<"Perfect! I've loaded the template.">>)

\* As GenerateFinalSpec, with the input taken as one more answer
GenerateFinalSpecRecording ==
    /\ phase \in SchemaNodePhases
    /\ schema # <<>>
    /\ current_field = None
    /\ \E u \in UserInputs, content \in ExtractionReplies :
          /\ json_loads(content) = JSONDecodeError
          /\ reasoning_traces' =
                 append_trace(reasoning_traces,
                     ReasoningTrace("None", <<"user_input: ">> \o u, 6,
                                    <<"Direct user input">>))
          /\ required_fields' = reloaded_required_fields(required_fields)
          /\ UNCHANGED <<scope_confirmed, user_responses, project_stage, platform,
                         challenge_type, schema, current_field, completed_fields>>
          /\ Returns("_generate_final_spec", u, content, 1, "spec_generation",
                     <<"Let me compile your complete challenge specification now.">>)

GenerateFinalSpec ==
    /\ phase \in SchemaNodePhases
    /\ schema # <<>>
    /\ current_field = None
    /\ \E u \in UserInputs :
          /\ required_fields' = reloaded_required_fields(required_fields)
          /\ UNCHANGED <<scope_confirmed, user_responses, project_stage, platform,
                         challenge_type, schema, current_field, completed_fields,
                         reasoning_traces>>
          /\ Returns("_generate_final_spec", u, <<>>, 0, "spec_generation",
                     <<"Let me compile your complete challenge specification now.">>)

QuestionReplies == { <<"Which", "?">> }

\* As is_answer, without the question heuristic
is_answer_nonempty(u) == u # <<>>

\* _handle_field_questions: the input is handled as an answer
is_answer(u) == u # <<>> /\ ~is_question_response(u)

AskFieldQuestion ==
    /\ phase \in SchemaNodePhases
    /\ schema # <<>>
    /\ current_field # None
    /\ get_field_definition(schema[1], current_field) # <<>>
    /\ \/ \E u \in UserInputs, outcome \in SearchOutcomes :
             /\ ~is_answer(u)
             /\ search_similar_challenges(outcome).raised # None
             /\ Raises("_ask_field_question", u, <<>>, 0,
                       search_similar_challenges(outcome).raised)
       \/ \E u \in UserInputs :
             /\ ~is_answer(u)
             /\ SearchReturns
             /\ Raises("_ask_field_question", u, <<>>, 1, InvokeError)
       \/ \E u \in UserInputs, ai_response \in QuestionReplies :
          /\ ~is_answer(u)
          /\ SearchReturns
          /\ required_fields' = reloaded_required_fields(required_fields)
          /\ UNCHANGED <<scope_confirmed, user_responses, project_stage, platform,
                         challenge_type, schema, current_field, completed_fields,
                         reasoning_traces>>
          /\ Returns("_ask_field_question", u, ai_response, 1, "field_questions",
                     ai_response)

\* processed_answer["value"]: the exception it raises, or None
value_error(processed) ==
    IF processed.kind # "dict" THEN "TypeError"
    ELSE IF "value" \notin DOMAIN processed.members THEN "KeyError"
    ELSE None

\* processed_answer.get(key, default)
get(processed, key, default) ==
    IF key \in DOMAIN processed.members THEN processed.members[key] ELSE default

answer_trace(field_name, user_answer, processed) ==
    ReasoningTrace(field_name,
                   <<"user_input: ">> \o user_answer,
                   Tenths(get(processed, "confidence", Num(DefaultAnswerConfidence)).text[1]),
                   get(processed, "reasoning", Str(<<"User provided: ">> \o user_answer)).text)

\* As answer_next_node, going back to scoping when no field is left
answer_next_node_restart(next_field) ==
    IF next_field # None THEN "field_questions" ELSE "scoping"

answer_next_node(next_field) ==
    IF next_field # None THEN "field_questions" ELSE "spec_generation"

\* _handle_field_questions with an answer, then _process_field_answer; the
\* extraction call returns one of contents
ProcessFieldAnswerOf(contents) ==
    /\ phase \in SchemaNodePhases
    /\ schema # <<>>
    /\ current_field # None
    /\ get_field_definition(schema[1], current_field) # <<>>
    /\ \/ \E u \in UserInputs :
             /\ is_answer(u)
             /\ Raises("_process_field_answer", u, <<>>, 1, InvokeError)
       \/ \E u \in UserInputs, content \in contents :
          /\ is_answer(u)
          /\ LET processed_answer == process_answer_with_llm(u, content)
                 field_name == current_field
             IN  IF value_error(processed_answer) # None
                 THEN Raises("_process_field_answer", u, content, 1,
                             value_error(processed_answer))
                 ELSE /\ user_responses' =
                             [k \in DOMAIN user_responses \cup {field_name} |->
                                 IF k = field_name
                                 THEN processed_answer.members["value"]
                                 ELSE user_responses[k]]
                      /\ completed_fields' = Append(completed_fields, field_name)
                      /\ reasoning_traces' =
                             append_trace(reasoning_traces,
                                 answer_trace(field_name, u, processed_answer))
                      /\ required_fields' = reloaded_required_fields(required_fields)
                      /\ current_field' =
                             get_next_field(completed_fields', required_fields', schema)
                      /\ UNCHANGED <<scope_confirmed, project_stage, platform,
                                     challenge_type, schema>>
                      /\ Returns("_process_field_answer", u, content, 1,
                                 answer_next_node(current_field'),
                                 IF current_field' # None
                                 THEN <<"Great! I've recorded your answer for ", field_name>>
                                 ELSE <<"Perfect! I have all the information I need.">>)

ProcessFieldAnswer == ProcessFieldAnswerOf(ExtractionReplies)

Next ==
    \/ ScopingDialogue
    \/ SchemaSelection
    \/ LoadSchema
    \/ GenerateFinalSpec
    \/ AskFieldQuestion
    \/ ProcessFieldAnswer

Spec == Init /\ [][Next]_vars

(***************************************************************************)
(* _get_next_field on its own: the state dictionary is drawn from small    *)
(* schemas, with any sequence of keys as completed_fields, and the         *)
(* function is applied to it.                                              *)
(***************************************************************************)

MaxCompletedLen == 3

SmallSchemas ==
    {[platform |-> "Internal", challenge_type |-> "Design",
      order |-> <<"a", "b", "c">>,
      fields |-> [a |-> FieldDef(ra, "text"), b |-> FieldDef(rb, "array"),
                  c |-> FieldDef(rc, "text")]] : ra, rb, rc \in BOOLEAN}

SeqsUpTo(S, n) == UNION {[1..k -> S] : k \in 0..n}

InitNextField ==
    /\ phase = "field_questions"
    /\ scope_confirmed = TRUE
    /\ user_responses = EmptyDict
    /\ project_stage = None
    /\ platform = "Internal"
    /\ challenge_type = "Design"
    /\ schema \in {<<>>} \cup {<<sch>> : sch \in SmallSchemas}
    /\ required_fields \in {<<>>} \cup {get_required_fields(sch) : sch \in SmallSchemas}
    /\ current_field = None
    /\ completed_fields \in SeqsUpTo({"a", "b", "c", "confirmed_scope"}, MaxCompletedLen)
    /\ reasoning_traces = <<>>
    /\ user_input = <<>>
    /\ llm_response = <<>>
    /\ oracle_calls = 0
    /\ handler = None
    /\ response = <<>>
    /\ raised = None
    /\ final_spec = <<>>
    /\ FlowIdle

ApplyGetNextField ==
    /\ handler = None
    /\ handler' = "_get_next_field"
    /\ current_field' = get_next_field(completed_fields, required_fields, schema)
    /\ UNCHANGED <<phase, scope_confirmed, user_responses, project_stage, platform,
                   challenge_type, schema, required_fields, completed_fields,
                   reasoning_traces, user_input, llm_response, oracle_calls,
                   response, raised, final_spec>>
    /\ UNCHANGED flow_vars

NextNextField == ApplyGetNextField

SpecNextField == InitNextField /\ [][NextNextField]_vars

(***************************************************************************)
(* _load_schema on its own: the handler is applied to a schema_loading     *)
(* state holding any platform and challenge type, set or not.              *)
(***************************************************************************)

InitLoadSchema ==
    /\ phase = "schema_loading"
    /\ scope_confirmed = TRUE
    /\ user_responses = [k \in {"confirmed_scope"} |-> Str(<<"app">>)]
    /\ project_stage \in {None, "idea"}
    /\ platform \in Platforms \cup {None}
    /\ challenge_type \in ChallengeTypes \cup {None}
    /\ schema = <<>>
    /\ required_fields = <<>>
    /\ current_field = None
    /\ completed_fields = <<>>
    /\ reasoning_traces =
           <<ReasoningTrace("scoping", <<"scoping_dialogue">>,
                            ScopeConfirmedConfidence,
                            <<"User confirmed scope: ", "app">>)>>
    /\ user_input = <<>>
    /\ llm_response = <<>>
    /\ oracle_calls = 0
    /\ handler = None
    /\ response = <<>>
    /\ raised = None
    /\ final_spec = <<>>
    /\ FlowIdle

NextLoadSchema == LoadSchema

SpecLoadSchema == InitLoadSchema /\ [][NextLoadSchema]_vars

(***************************************************************************)
(* Properties                                                              *)
(***************************************************************************)

\* C1: whatever the schema, the required-field list and completed_fields
\* are, the field _get_next_field returns is not in completed_fields: it is
\* a field not yet completed, or None.
C1_NextFieldNotCompleted ==
    handler = "_get_next_field" =>
        current_field = None \/ current_field \notin Range(completed_fields)

\* C1 witness: a field is returned after fields of the schema that are
\* already completed were passed over.
C1_Witness ==
    /\ handler = "_get_next_field"
    /\ schema # <<>>
    /\ current_field \in Range(schema[1].order)
    /\ current_field # schema[1].order[1]
    /\ schema[1].order[1] \in Range(completed_fields)

\* C2: no optional field of the loaded schema is in completed_fields while
\* a required field of that schema is missing from completed_fields.
C2_RequiredBeforeOptional ==
    schema # <<>> =>
        \A f \in Range(completed_fields) :
            (f \in DOMAIN schema[1].fields /\ ~schema[1].fields[f].required) =>
                \A r \in Range(get_required_fields(schema[1])) :
                    r \in Range(completed_fields)

\* The turn called the oracle and the call failed: no reply came back (every
\* reply of the oracle has some content)
OracleFailed == oracle_calls = 1 /\ llm_response = <<>>

C4_AnswerNeverRaises ==
    (handler = "_process_field_answer" /\ ~OracleFailed) =>
        /\ raised = None
        /\ completed_fields # <<>>
        /\ Last(completed_fields) \in DOMAIN user_responses

\* C5: once no current field remains (phase spec_generation), a further turn
\* returns the same final specification, leaves user_responses and
\* completed_fields unchanged, appends no reasoning trace and does not call
\* the oracle.
C5_DoneIsIdempotent ==
    [][(schema # <<>> /\ current_field = None)
       => (/\ raised' = None
           /\ final_spec # <<>>
           /\ final_spec' = final_spec
           /\ user_responses' = user_responses
           /\ completed_fields' = completed_fields
           /\ reasoning_traces' = reasoning_traces
           /\ oracle_calls' = 0)]_vars

\* C5 witness: a turn was taken on a complete conversation.
C5_Witness ==
    /\ handler = "_generate_final_spec"
    /\ phase = "spec_generation"
    /\ user_input # <<>>
    /\ final_spec # <<>>

\* C6: the keys of the final specification are exactly the fields in
\* completed_fields.
C6_FinalSpecKeys ==
    final_spec # <<>> => DOMAIN final_spec[1] = Range(completed_fields)

PhaseOrder ==
    <<"scoping", "schema_selection", "schema_loading", "field_questions",
      "spec_generation">>

PhaseRank(p) == CHOOSE i \in 1..Len(PhaseOrder) : PhaseOrder[i] = p

\* C7: a turn moves the phase forward in the order scoping,
\* schema_selection, schema_loading, field_questions, spec_generation, or
\* leaves it, except for a recovery back to scoping or schema_selection,
\* which never starts from field_questions or later.
C7_PhaseMovesForward ==
    [][\/ PhaseRank(phase') >= PhaseRank(phase)
       \/ /\ phase' \in {"scoping", "schema_selection"}
          /\ PhaseRank(phase) < PhaseRank("field_questions")]_vars

\* C7 witness: a turn taken in the last phase, after a recovery to scoping
\* earlier in the session would have been possible.
C7_Witness ==
    /\ phase = "spec_generation"
    /\ handler = "_generate_final_spec"

\* C8: a key of user_responses, once set, keeps its value in every later
\* turn.
C8_ResponsesImmutable ==
    [][\A k \in DOMAIN user_responses :
           k \in DOMAIN user_responses' /\ user_responses'[k] = user_responses[k]]_vars

\* C8 witness: turns have followed the setting of confirmed_scope and of a
\* schema field.
C8_Witness ==
    /\ "confirmed_scope" \in DOMAIN user_responses
    /\ Len(completed_fields) >= 2
    /\ user_responses[completed_fields[1]] # user_responses[completed_fields[2]]

\* C9: after every turn the previous sequence of reasoning traces is a
\* prefix of the new one.
C9_TracesAppendOnly ==
    [][IsPrefix(reasoning_traces, reasoning_traces')]_vars

\* C9 witness: traces of the scoping dialogue and of field answers have
\* been appended one after the other.
C9_Witness ==
    /\ Len(reasoning_traces) >= 3
    /\ reasoning_traces[1].field = "scoping"
    /\ reasoning_traces[3].field # "scoping"

\* The description that follows the first confirmation marker of a reply:
\* the rest of the marker's line, or the next line with text, without the
\* blanks around it (<<>> when only blanks follow).
DescriptionAfterMarker(s) ==
    LET m == Min({i \in 1..Len(s) : s[i] \in {"SCOPE_CONFIRMED:", "scope_confirmed:"}})
        start == m + 1 + WhitespaceRun(s, m + 1)
    IN  Strip(SubSeq(s, start, start + LineRun(s, start) - 1))

HasMarkerWithDescription(s) ==
    /\ \E i \in 1..Len(s) : s[i] \in {"SCOPE_CONFIRMED:", "scope_confirmed:"}
    /\ DescriptionAfterMarker(s) # <<>>

\* C10: in phase scoping with scope_confirmed false, a turn whose oracle
\* reply carries the confirmation marker followed by a description sets
\* scope_confirmed, stores the description under
\* user_responses["confirmed_scope"] and keeps the other entries, appends
\* exactly one reasoning trace, with confidence 0.9, and moves the phase to
\* schema_selection.
C10_ScopeConfirmation ==
    [][(/\ phase = "scoping"
        /\ ~scope_confirmed
        /\ HasMarkerWithDescription(llm_response'))
       => (/\ raised' = None
           /\ scope_confirmed'
           /\ DOMAIN user_responses' = DOMAIN user_responses \cup {"confirmed_scope"}
           /\ user_responses'["confirmed_scope"] =
                  Str(DescriptionAfterMarker(llm_response'))
           /\ \A k \in DOMAIN user_responses \ {"confirmed_scope"} :
                  user_responses'[k] = user_responses[k]
           /\ Len(reasoning_traces') = Len(reasoning_traces) + 1
           /\ IsPrefix(reasoning_traces, reasoning_traces')
           /\ Last(reasoning_traces').confidence = 9
           /\ phase' = "schema_selection")]_vars

\* C10 witness: the scoping dialogue confirmed the scope from a reply whose
\* description stands on the line after the marker.
C10_Witness ==
    /\ handler = "_handle_scoping_dialogue"
    /\ phase = "schema_selection"
    /\ scope_confirmed
    /\ \E i \in 1..Len(llm_response) - 1 :
           llm_response[i] = "SCOPE_CONFIRMED:" /\ llm_response[i + 1] = "nl"
    /\ user_responses["confirmed_scope"] = Str(<<"app">>)

(***************************************************************************)
(* The /chat boundary over the single-node flow.  A request invokes the    *)
(* graph, which loads the thread's checkpoint and writes the request's     *)
(* input over it; the chatbot node then runs on that state, and the state  *)
(* with the node's updates becomes the thread's checkpoint.  Nothing       *)
(* orders two requests, so their steps interleave.                         *)
(***************************************************************************)

MaxRounds == 2

\* The fields of a proposed scope
ProposedFields == [goal |-> "app", title |-> "T"]

\* What the oracle call and the retrieval of one turn give: the kind of
\* reply, the fields of a proposal, the number of retrieved documents, and
\* whether the stored field_data keeps what the node writes into it in place
Reply(kind, fields, docs, kept) ==
    [kind |-> kind, fields |-> fields, docs |-> docs, kept |-> kept]

NoReply == Reply("none", EmptyDict, 0, FALSE)

BotReplies ==
    { Reply("text", EmptyDict, 0, FALSE),
      Reply("proposal", ProposedFields, 0, FALSE),
      Reply("invalid_json", EmptyDict, 0, FALSE),
      Reply("json_without_fields", EmptyDict, 0, FALSE),
      Reply("proposal_without_value", ProposedFields, 0, FALSE),
      Reply("tool_call", EmptyDict, 0, FALSE),
      Reply("tool_call", EmptyDict, 1, FALSE),
      Reply("tool_call", EmptyDict, 1, TRUE),
      Reply("error", EmptyDict, 0, FALSE) }

\* field_data after the recommendations of a retrieved document are put in
with_recommendations(field_data) ==
    [f \in DOMAIN field_data \cup {"timeline", "tech_stack"} |->
        IF f \in DOMAIN field_data THEN field_data[f]
        ELSE IF f = "timeline" THEN "submission_days" ELSE "Python"]

\* chatbot: the exception raised (or None) and the state with the node's
\* updates
chatbot(state, reply) ==
    CASE reply.kind = "error" ->
            [raised |-> InvokeError, state |-> state]
      [] reply.kind = "proposal" ->
            [raised |-> None,
             state |-> [state EXCEPT !.field_data = reply.fields]]
      [] reply.kind = "proposal_without_value" ->
            [raised |-> "KeyError", state |-> state]
      [] reply.kind = "tool_call" ->
            [raised |-> None,
             state |-> [field_data |->
                            IF reply.docs > 0 /\ reply.kept
                            THEN with_recommendations(state.field_data)
                            ELSE state.field_data,
                        is_final |-> TRUE]]
      [] OTHER ->
            [raised |-> None, state |-> state]

\* The state the graph starts a turn from: the checkpoint with the input of
\* the handler written over it
invoke_input(e, prior) ==
    IF e = "src/main.py"
    THEN [field_data |-> EmptyDict, is_final |-> FALSE]
    ELSE prior

\* chat, up to the start of the node
ChatInvoke(r) ==
    /\ requests[r].pc = "idle"
    /\ rounds < MaxRounds
    /\ \E t \in Threads, e \in Entries :
          LET state == invoke_input(e, checkpoint[t])
          IN  /\ entry \in {None, e}
              /\ entry' = e
              /\ requests' = [requests EXCEPT ![r] =
                     [pc |-> "running", thread |-> t,
                      prior |-> checkpoint[t], state |-> state,
                      reply |-> NoReply, logs |-> <<>>,
                      final |-> state, response |-> NoResponse,
                      raised |-> None]]
              /\ checkpoint' = [checkpoint EXCEPT ![t] = state]
    /\ UNCHANGED <<base, rounds, log, node_vars>>

\* Whether the branch of the node that handles the reply calls
\* log_reasoning_trace
logs_reasoning_trace(reply) == reply.kind \in {"proposal", "tool_call"}

\* The entry log_reasoning_trace appends; the turn stands for its timestamp
log_entry(turn, state, reply) ==
    [timestamp |-> turn,
     scope |-> chatbot(state, reply).state.field_data,
     accepted |-> reply.kind = "tool_call"]

\* chat, after the graph has run: the keys of the returned dictionary
chat_response(e, final_state) ==
    IF e = "src/main.py" /\ final_state.is_final
    THEN [final_spec |-> <<final_state.field_data>>,
          reasoning_trace |-> <<DOMAIN final_state.field_data>>]
    ELSE NoResponse

\* The run of the graph ends without exception: its state is stored and
\* chat builds the response
TurnCompleted(r, reply, final_state) ==
    /\ requests' = [requests EXCEPT ![r].pc = "done",
                                    ![r].reply = reply,
                                    ![r].final = final_state,
                                    ![r].response = chat_response(entry, final_state)]
    /\ checkpoint' = [checkpoint EXCEPT ![requests[r].thread] = final_state]

\* The node raises: no update is written, and the stored field_data shows
\* what the node has put into the dictionary in place
TurnFailed(r, reply, exception, field_data) ==
    /\ requests' = [requests EXCEPT ![r].pc = "done",
                                    ![r].reply = reply,
                                    ![r].raised = exception]
    /\ checkpoint' = [checkpoint EXCEPT ![requests[r].thread].field_data = field_data]

\* The node runs: up to its end, or up to the point where
\* log_reasoning_trace has read the log file
Chatbot(r) ==
    /\ requests[r].pc = "running"
    /\ \E reply \in BotReplies :
          LET out == chatbot(requests[r].state, reply)
          IN  IF out.raised # None
              THEN TurnFailed(r, reply, out.raised, checkpoint[requests[r].thread].field_data)
              ELSE IF logs_reasoning_trace(reply)
              THEN /\ requests' = [requests EXCEPT ![r].pc = "logging",
                                                   ![r].reply = reply,
                                                   ![r].logs = log]
                   /\ UNCHANGED checkpoint
              ELSE TurnCompleted(r, reply, out.state)
    /\ UNCHANGED <<entry, base, rounds, log, node_vars>>

\* log_reasoning_trace writes the log file and the node returns, or the
\* write raises
LogReasoningTrace(r) ==
    /\ requests[r].pc = "logging"
    /\ LET reply == requests[r].reply
           out == chatbot(requests[r].state, reply)
       IN  \/ /\ log' = Append(requests[r].logs,
                               log_entry(<<rounds, r>>, requests[r].state, reply))
              /\ TurnCompleted(r, reply, out.state)
           \/ /\ TurnFailed(r, reply, "OSError",
                            IF reply.kind = "tool_call" /\ reply.docs > 0 /\ reply.kept
                            THEN with_recommendations(requests[r].state.field_data)
                            ELSE checkpoint[requests[r].thread].field_data)
              /\ UNCHANGED log
    /\ UNCHANGED <<entry, base, rounds, node_vars>>

\* The requests of the round have been answered
ChatReturn ==
    /\ \A r \in Requests : requests[r].pc \in {"idle", "done"}
    /\ \E r \in Requests : requests[r].pc = "done"
    /\ requests' = [r \in Requests |-> NoRequest]
    /\ base' = checkpoint
    /\ rounds' = rounds + 1
    /\ UNCHANGED <<entry, checkpoint, log, node_vars>>

NextChat ==
    \/ \E r \in Requests : ChatInvoke(r)
    \/ \E r \in Requests : Chatbot(r)
    \/ \E r \in Requests : LogReasoningTrace(r)
    \/ ChatReturn

SpecChat == Init /\ [][NextChat]_vars

(***************************************************************************)
(* C11.  A schema-selection turn whose reply carries a line                *)
(* "RECOMMENDATION: <platform> - <type>" naming a platform and a challenge *)
(* type of the enumerations stores exactly those two values, changes       *)
(* nothing else in the conversation state and moves on to schema_loading.  *)
(***************************************************************************)

\* The enumeration value that the words after the dash spell, or None
TypeNamed(words) ==
    IF Len(words) = 1 THEN words[1]
    ELSE IF words = <<"Data", "Science">> THEN "Data Science"
    ELSE IF words = <<"Bug", "Hunt">> THEN "Bug Hunt"
    ELSE None

\* The platform and the type that the recommendation line of a reply names
\* (<<>> when the reply has no such line)
RecommendationLine(s) ==
    LET ms == {m \in 1..Len(s) : s[m] = "RECOMMENDATION:"}
        m == Min(ms)
    IN  IF ms = {} \/ m + 3 > Len(s) \/ s[m + 2] # "-" THEN <<>>
        ELSE <<s[m + 1], TypeNamed(SubSeq(s, m + 3, Len(s)))>>

HasValidRecommendationLine(s) ==
    /\ RecommendationLine(s) # <<>>
    /\ RecommendationLine(s)[1] \in Platforms
    /\ RecommendationLine(s)[2] \in ChallengeTypes

C11_RecommendationStored ==
    [][(/\ phase = "schema_selection"
        /\ handler' = "_handle_schema_selection"
        /\ HasValidRecommendationLine(llm_response'))
       => (/\ platform' = RecommendationLine(llm_response')[1]
           /\ challenge_type' = RecommendationLine(llm_response')[2]
           /\ phase' = "schema_loading"
           /\ UNCHANGED <<scope_confirmed, user_responses, project_stage,
                          schema, required_fields, current_field,
                          completed_fields, reasoning_traces>>)]_vars

(***************************************************************************)
(* C12.  With the (Topcoder, Development) schema loaded, the turn that     *)
(* records the last outstanding field leaves current_field undefined and   *)
(* the phase spec_generation; until then a field is current and the phase  *)
(* is field_questions.  The schema has its 8 required fields and the       *)
(* optional testing_requirements, which is asked as the ninth.             *)
(***************************************************************************)

DevelopmentLoaded == schema = <<TopcoderDevelopment>>

\* As claimed: the session is complete after 8 answers
C12_CompleteAfterEight ==
    (DevelopmentLoaded /\ Len(completed_fields) = 8)
    => (current_field = None /\ phase = "spec_generation")

\* The session is complete after 9 answers, and not before
C12_CompleteAfterNine ==
    DevelopmentLoaded
    => /\ Len(completed_fields) = Len(TopcoderDevelopment.order)
          => (current_field = None /\ phase = "spec_generation")
       /\ Len(completed_fields) < Len(TopcoderDevelopment.order)
          => (current_field # None /\ phase = "field_questions")
       /\ Len(completed_fields) = 8
          => /\ Range(completed_fields) = Range(get_required_fields(TopcoderDevelopment))
             /\ current_field = "testing_requirements"

C12_Witness ==
    /\ DevelopmentLoaded
    /\ handler = "_process_field_answer"
    /\ Len(completed_fields) = 9
    /\ current_field = None
    /\ phase = "spec_generation"

(***************************************************************************)
(* C13.  _load_schema recovers without raising: with the platform or the   *)
(* challenge type unset, or with no schema stored for the pair, the turn   *)
(* leaves the conversation state as it was, answers with an explanation    *)
(* and sets the phase to scoping.                                          *)
(***************************************************************************)

NoSchemaFor(p, c) ==
    \A sch \in default_schemas : sch.platform # p \/ sch.challenge_type # c

C13_LoadSchemaRecovers ==
    [][(/\ handler' = "_load_schema"
        /\ \/ platform = None
           \/ challenge_type = None
           \/ NoSchemaFor(platform, challenge_type))
       => (/\ raised' = None
           /\ UNCHANGED conv
           /\ response' # <<>>
           /\ phase' = "scoping")]_vars

\* Recovery from an unset challenge type
C13_Witness ==
    /\ handler = "_load_schema"
    /\ platform = "HeroX"
    /\ challenge_type = None
    /\ schema = <<>>
    /\ phase = "scoping"

(***************************************************************************)
(* C14.  A failing oracle call is not fatal: the turn that made it does    *)
(* not raise (and so answers with a fallback, leaving the phase and the    *)
(* conversation state as they were).                                       *)
(***************************************************************************)

C14_OracleFailureNonFatal == OracleFailed => raised = None

(***************************************************************************)
(* C15.  scope_confirmed is set once: a scoping-dialogue turn sets it      *)
(* exactly when its reply carries the confirmation marker followed by      *)
(* something other than line breaks; once set it stays set, no later turn  *)
(* runs the scoping dialogue and confirmed_scope is not rewritten.         *)
(***************************************************************************)

ConfirmationMarkers == {"SCOPE_CONFIRMED:", "scope_confirmed:"}

CarriesMarker(s) == \E m \in 1..Len(s) : s[m] \in ConfirmationMarkers

MarkerFollowedByText(s) ==
    \E m \in 1..Len(s) :
        s[m] \in ConfirmationMarkers /\ \E j \in m + 1..Len(s) : s[j] # "nl"

\* As claimed: any reply that carries the marker sets the flag
C15_SetOnAnyMarker ==
    [][(/\ ~scope_confirmed
        /\ handler' = "_handle_scoping_dialogue"
        /\ CarriesMarker(llm_response'))
       => scope_confirmed']_vars

C15_ScopeConfirmedOnce ==
    [][/\ scope_confirmed
          => /\ scope_confirmed'
             /\ handler' # "_handle_scoping_dialogue"
             /\ "confirmed_scope" \in DOMAIN user_responses'
             /\ user_responses'["confirmed_scope"] = user_responses["confirmed_scope"]
       /\ (~scope_confirmed /\ handler' = "_handle_scoping_dialogue" /\ ~OracleFailed')
          => (scope_confirmed' <=> MarkerFollowedByText(llm_response'))
       /\ (~scope_confirmed /\ scope_confirmed')
          => handler' = "_handle_scoping_dialogue"]_vars

\* A turn in phase scoping, after the recovery from a pair without schema,
\* ran the schema selection with the scope still confirmed.
C15_Witness ==
    /\ scope_confirmed
    /\ handler = "_handle_schema_selection"
    /\ phase = "schema_selection"
    /\ platform = "HeroX"
    /\ user_responses["confirmed_scope"] = Str(<<"app">>)

(***************************************************************************)
(* C16.  platform and challenge_type are set once: after a turn has stored *)
(* them no later turn stores a different platform or challenge type, the   *)
(* turns after a _load_schema recovery to scoping included.                *)
(***************************************************************************)

C16_SelectionSetOnce ==
    [][/\ platform # None => platform' = platform
       /\ challenge_type # None => challenge_type' = challenge_type]_vars

(***************************************************************************)
(* C17.  The stored schema is never replaced or modified: _load_schema     *)
(* runs only while no schema is stored, and every turn with a schema       *)
(* stored leaves the schema and the required-field list as they were.      *)
(***************************************************************************)

C17_SchemaSnapshotKept ==
    [][/\ handler' = "_load_schema" => schema = <<>>
       /\ schema # <<>>
          => (schema' = schema /\ required_fields' = required_fields)]_vars

(***************************************************************************)
(* C18.  The handler of a turn is determined by the phase alone: the       *)
(* scoping dialogue in scoping, the schema selection in schema_selection,  *)
(* _load_schema in schema_loading, and the question and answer handlers in *)
(* field_questions.                                                        *)
(***************************************************************************)

C18_HandlerByPhase ==
    [][/\ phase = "scoping" => handler' = "_handle_scoping_dialogue"
       /\ phase = "schema_selection" => handler' = "_handle_schema_selection"
       /\ phase = "schema_loading" => handler' = "_load_schema"
       /\ phase = "field_questions"
          => handler' \in {"_ask_field_question", "_process_field_answer"}]_vars

(***************************************************************************)
(* C19.  State is carried across the turns of a thread_id: the state a     *)
(* turn starts from is the state stored for the thread by its previous     *)
(* turn (the initial state when there was none), so the field values and   *)
(* is_final of one turn are there at the start of the next.                *)
(***************************************************************************)

C19_StateCarriedAcrossTurns ==
    \A r \in Requests :
        requests[r].pc = "running" => requests[r].state = requests[r].prior

(***************************************************************************)
(* C20.  Turns that share a thread_id are serialized: when two requests on *)
(* one thread have been served, the thread's stored state is the state     *)
(* that serving them one after the other, in one of the two orders, gives. *)
(***************************************************************************)

\* The stored state after request r is served alone from stored state c
Turn(c, r) ==
    chatbot(invoke_input(entry, c), requests[r].reply).state

C20_SameThreadSerialized ==
    \A t \in Threads :
        (\A r \in Requests : requests[r].pc = "done" /\ requests[r].thread = t)
        => checkpoint[t] \in {Turn(Turn(base[t], 1), 2), Turn(Turn(base[t], 2), 1)}

(***************************************************************************)
(* C25.  A scoping-dialogue turn whose reply carries no confirmation       *)
(* marker leaves the phase at scoping, scope_confirmed false,              *)
(* user_responses as it was and appends no reasoning trace; of the         *)
(* conversation state only project_stage may change.                       *)
(***************************************************************************)

C25_NoMarkerKeepsScoping ==
    [][(/\ phase = "scoping"
        /\ handler' = "_handle_scoping_dialogue"
        /\ oracle_calls' = 1
        /\ ~OracleFailed'
        /\ ~CarriesMarker(llm_response'))
       => (/\ raised' = None
           /\ phase' = "scoping"
           /\ ~scope_confirmed'
           /\ user_responses' = user_responses
           /\ reasoning_traces' = reasoning_traces
           /\ UNCHANGED <<platform, challenge_type, schema, required_fields,
                          current_field, completed_fields>>)]_vars

\* A dialogue turn without marker went by: only the project stage was set
C25_Witness ==
    /\ handler = "_handle_scoping_dialogue"
    /\ ~CarriesMarker(llm_response)
    /\ llm_response # <<>>
    /\ project_stage = "idea"
    /\ phase = "scoping"
    /\ ~scope_confirmed
    /\ reasoning_traces = <<>>

(***************************************************************************)
(* C26.  A schema-selection turn whose reply has no recommendation line,   *)
(* or whose line names a platform or a challenge type outside the          *)
(* enumerations, leaves the whole conversation state as it was (neither    *)
(* platform nor challenge_type is set), keeps the phase schema_selection   *)
(* and answers with the oracle's text.                                     *)
(***************************************************************************)

C26_InvalidRecommendationIgnored ==
    [][(/\ phase = "schema_selection"
        /\ handler' = "_handle_schema_selection"
        /\ ~OracleFailed'
        /\ ~HasValidRecommendationLine(llm_response'))
       => (/\ raised' = None
           /\ UNCHANGED conv
           /\ phase' = "schema_selection"
           /\ response' = llm_response')]_vars

\* A selection turn whose line named an unknown platform went by
C26_Witness ==
    /\ handler = "_handle_schema_selection"
    /\ RecommendationLine(llm_response) # <<>>
    /\ RecommendationLine(llm_response)[1] \notin Platforms
    /\ platform = None
    /\ challenge_type = None
    /\ phase = "schema_selection"
    /\ response = llm_response

(***************************************************************************)
(* C27.  A _load_schema turn that finds the pair's schema stores the       *)
(* schema and its required-field list, makes the first required field in   *)
(* declared order (the first field, if none is required) the current       *)
(* field, leaves completed_fields, user_responses and reasoning_traces as  *)
(* they were and moves the phase to field_questions.                       *)
(***************************************************************************)

\* The positions of the required fields in the declared order
RequiredPositions(sch) ==
    {i \in 1..Len(sch.order) : sch.fields[sch.order[i]].required}

FirstFieldToAsk(sch) ==
    IF RequiredPositions(sch) # {} THEN sch.order[Min(RequiredPositions(sch))]
    ELSE sch.order[1]

\* list holds the required fields of sch, each once, in declared order
IsRequiredList(list, sch) ==
    /\ Len(list) = Cardinality(RequiredPositions(sch))
    /\ \A i \in 1..Len(list) :
          \E p \in RequiredPositions(sch) :
              /\ list[i] = sch.order[p]
              /\ Cardinality({q \in RequiredPositions(sch) : q < p}) = i - 1

C27_LoadSchemaStores ==
    [][(/\ handler' = "_load_schema"
        /\ platform # None
        /\ challenge_type # None
        /\ ~NoSchemaFor(platform, challenge_type))
       => (\E sch \in default_schemas :
              /\ sch.platform = platform
              /\ sch.challenge_type = challenge_type
              /\ raised' = None
              /\ schema' = <<sch>>
              /\ IsRequiredList(required_fields', sch)
              /\ current_field' = FirstFieldToAsk(sch)
              /\ UNCHANGED <<completed_fields, user_responses, reasoning_traces>>
              /\ phase' = "field_questions")]_vars

\* The Kaggle schema has just been loaded
C27_Witness ==
    /\ handler = "_load_schema"
    /\ schema = <<KaggleDataScience>>
    /\ required_fields # <<>>
    /\ current_field = "title"
    /\ completed_fields = <<>>
    /\ phase = "field_questions"

(***************************************************************************)
(* C28.  A field-answer turn on current_field f sets user_responses[f],    *)
(* appends f once to completed_fields, appends one reasoning trace for f,  *)
(* makes current_field the next field of the next-field algorithm for the  *)
(* new completed_fields (the first required field not completed, then the  *)
(* first field not completed), keeps the phase field_questions if there is *)
(* one and moves to spec_generation otherwise, and changes nothing else.   *)
(***************************************************************************)

\* The next-field algorithm on a schema and the completed fields
NextFieldOf(sch, completed) ==
    LET todo(positions) == {p \in positions : sch.order[p] \notin Range(completed)}
        all == 1..Len(sch.order)
    IN  IF todo(RequiredPositions(sch)) # {}
        THEN sch.order[Min(todo(RequiredPositions(sch)))]
        ELSE IF todo(all) # {} THEN sch.order[Min(todo(all))]
        ELSE None

C28_AnswerTurnChanges ==
    [][(/\ phase = "field_questions"
        /\ handler' = "_process_field_answer"
        /\ raised' = None)
       => (/\ DOMAIN user_responses' = DOMAIN user_responses \cup {current_field}
           /\ \A k \in DOMAIN user_responses \ {current_field} :
                  user_responses'[k] = user_responses[k]
           /\ completed_fields' = Append(completed_fields, current_field)
           /\ Len(reasoning_traces') = Len(reasoning_traces) + 1
           /\ IsPrefix(reasoning_traces, reasoning_traces')
           /\ Last(reasoning_traces').field = current_field
           /\ current_field' = NextFieldOf(schema[1], completed_fields')
           /\ phase' = IF current_field' # None THEN "field_questions"
                       ELSE "spec_generation"
           /\ UNCHANGED <<scope_confirmed, project_stage, platform,
                          challenge_type, schema>>)]_vars

(***************************************************************************)
(* C29.  In field_questions, a turn whose input is empty or matches the    *)
(* question heuristic is handled as a question about the field and does    *)
(* not consume it: current_field, completed_fields, user_responses and     *)
(* reasoning_traces are as before and the phase stays field_questions.     *)
(***************************************************************************)

C29_QuestionKeepsField ==
    [][(/\ phase = "field_questions"
        /\ user_input' = <<>> \/ is_question_response(user_input'))
       => (/\ handler' = "_ask_field_question"
           /\ UNCHANGED <<current_field, completed_fields, user_responses,
                          reasoning_traces>>
           /\ phase' = "field_questions")]_vars

\* A question turn went by with fields already answered and one current
C29_Witness ==
    /\ handler = "_ask_field_question"
    /\ raised = None
    /\ is_question_response(user_input)
    /\ completed_fields = <<"title">>
    /\ current_field = "overview"
    /\ phase = "field_questions"

(***************************************************************************)
(* C30.  In field_questions the input is taken as a question exactly when  *)
(* it is empty, contains "?" or begins with an interrogative lead word;    *)
(* any other input is consumed as a field answer.                          *)
(***************************************************************************)

\* The words that open a question
LeadWords == {"what", "how", "when", "where", "why", "which", "can you", "could you"}

LooksLikeQuestion(u) ==
    \/ u = <<>>
    \/ "?" \in Range(u)
    \/ Lower(u[1]) \in LeadWords

C30_QuestionByLeadWord ==
    handler \in {"_ask_field_question", "_process_field_answer"}
    => (handler = "_ask_field_question" <=> LooksLikeQuestion(user_input))

(***************************************************************************)
(* C24.  A suggestion search that fails, at the embedding of the query or  *)
(* at the query of the index, gives no results and raises nothing into     *)
(* the scoping or field-question turn that called it.                      *)
(***************************************************************************)

C24_SearchFailureContained ==
    handler \in {"_handle_scoping_dialogue", "_ask_field_question"}
    => raised # EncodeError

(***************************************************************************)
(* C21.  Turns on distinct thread_ids share no mutable state: when two     *)
(* requests on different threads have been served without exception, each  *)
(* thread's stored state is what its turn alone gives, and the log file    *)
(* holds the entry of every turn that called log_reasoning_trace.          *)
(***************************************************************************)

\* The log file holds the entry that the turn of request r has written
Logged(r) ==
    \E i \in 1..Len(log) : log[i].timestamp = <<rounds, r>>

C21_DistinctThreadsIndependent ==
    (/\ \A r \in Requests : requests[r].pc = "done" /\ requests[r].raised = None
     /\ requests[1].thread # requests[2].thread)
    => \A r \in Requests :
          /\ checkpoint[requests[r].thread] = Turn(base[requests[r].thread], r)
          /\ logs_reasoning_trace(requests[r].reply) => Logged(r)

(***************************************************************************)
(* C22.  State updates are all-or-nothing per turn: after a turn that      *)
(* raised, the stored state of its thread is the state stored before the   *)
(* turn and the log file holds no entry of the turn.                       *)
(***************************************************************************)

\* No other request is served on the thread of request r
AloneOnThread(r) ==
    \A q \in Requests \ {r} :
        requests[q].pc = "idle" \/ requests[q].thread # requests[r].thread

C22_FailedTurnLeavesState ==
    \A r \in Requests :
        (/\ requests[r].pc = "done"
         /\ requests[r].raised # None
         /\ AloneOnThread(r))
        => /\ checkpoint[requests[r].thread] = requests[r].prior
           /\ ~Logged(r)

(***************************************************************************)
(* C23.  Once is_final is true the response of chat carries a final_spec   *)
(* that maps every collected field to its value and a reasoning_trace with *)
(* one entry per collected field; while is_final is false the response     *)
(* carries neither.                                                        *)
(***************************************************************************)

\* The fields collected on the thread of request r when its turn has ended:
\* those stored before the turn and those the turn has stored
Collected(r) ==
    LET before == requests[r].prior.field_data
        after == requests[r].final.field_data
    IN  [f \in DOMAIN before \cup DOMAIN after |->
            IF f \in DOMAIN after THEN after[f] ELSE before[f]]

C23_FinalResponse ==
    \A r \in Requests :
        (requests[r].pc = "done" /\ requests[r].raised = None)
        => IF requests[r].final.is_final
           THEN /\ requests[r].response.final_spec = <<Collected(r)>>
                /\ requests[r].response.reasoning_trace = <<DOMAIN Collected(r)>>
           ELSE requests[r].response = NoResponse

(***************************************************************************)
(* C31.  Field collection makes forward progress whatever the oracle       *)
(* returns: in field_questions, every turn whose input is taken as an      *)
(* answer and whose extraction call returns adds one field to              *)
(* completed_fields, and the phase becomes spec_generation exactly when    *)
(* all N fields of the schema are completed.                               *)
(***************************************************************************)

\* An answer turn of field collection whose oracle call has returned
AnswerTurn ==
    /\ phase = "field_questions"
    /\ schema # <<>>
    /\ current_field # None
    /\ handler' = "_process_field_answer"
    /\ is_answer(user_input')
    /\ oracle_calls' = 1
    /\ ~OracleFailed'

C31_AnswersMakeProgress ==
    [][AnswerTurn
       => (/\ Len(completed_fields') = Len(completed_fields) + 1
           /\ phase' = "spec_generation"
                <=> Len(completed_fields') = Len(schema[1].order))]_vars

(***************************************************************************)
(* C32.  No turn retries the oracle: a scoping, schema-selection,          *)
(* field-question or field-answer turn issues exactly one completion call, *)
(* a load_schema or final-specification turn issues none.                  *)
(***************************************************************************)

OracleHandlers ==
    {"_handle_scoping_dialogue", "_handle_schema_selection",
     "_ask_field_question", "_process_field_answer"}

C32_OneCallPerTurn ==
    /\ handler \in OracleHandlers => oracle_calls = 1
    /\ handler \in {"_load_schema", "_generate_final_spec"} => oracle_calls = 0

(***************************************************************************)
(* Field answers whose extraction reply is a record with a value and a     *)
(* confidence: the confidence is the number the oracle wrote, inside or    *)
(* outside 0.0 to 1.0.                                                     *)
(***************************************************************************)

ConfidenceReplies ==
    { <<"{", "\"value\"", ":", "\"v\"", ",", "\"confidence\"", ":", "0.9", ",",
        "\"reasoning\"", ":", "\"r\"", "}">>,
      <<"{", "\"value\"", ":", "\"v\"", ",", "\"confidence\"", ":", "42", "}">> }

ProcessFieldAnswerConfidence == ProcessFieldAnswerOf(ConfidenceReplies)

NextConfidence ==
    \/ ScopingDialogue
    \/ SchemaSelection
    \/ LoadSchema
    \/ ProcessFieldAnswerConfidence

SpecConfidence == Init /\ [][NextConfidence]_vars

(***************************************************************************)
(* C33.  Every reasoning trace of the conversation state has a confidence  *)
(* within 0.0 to 1.0 (0 to 10 tenths), the traces of field answers whose   *)
(* confidence comes from the oracle's extraction record included.          *)
(***************************************************************************)

C33_ConfidenceInRange ==
    \A i \in 1..Len(reasoning_traces) :
        /\ reasoning_traces[i].confidence >= 0
        /\ reasoning_traces[i].confidence <= 10

(***************************************************************************)
(* C34.  In the single-node flow, a reply that starts with '{' but is no   *)
(* well-formed proposal (invalid JSON, JSON without 'fields', a field      *)
(* entry without 'value') never raises and changes neither field_data nor  *)
(* is_final: the turn ends as an ordinary reply.                           *)
(***************************************************************************)

MalformedProposals ==
    {"invalid_json", "json_without_fields", "proposal_without_value"}

C34_MalformedProposalIsReply ==
    \A r \in Requests :
        (requests[r].pc = "done" /\ requests[r].reply.kind \in MalformedProposals)
        => /\ requests[r].raised = None
           /\ requests[r].final = requests[r].state

(***************************************************************************)
(* C35.  Every platform and every challenge type of the schema-selection   *)
(* menu can be selected: after a selection turn whose reply is             *)
(* "RECOMMENDATION: <platform> - <type>" with a platform and a type        *)
(* written as in the menu, that pair is stored and the phase is            *)
(* schema_loading.                                                         *)
(***************************************************************************)

\* The platforms and the challenge types that the menu of the prompt lists
MenuPlatforms == {"Topcoder", "Kaggle", "HeroX", "Zindi", "Internal"}

MenuChallengeTypes ==
    {"Design", "Development", "Data Science", "First2Finish", "Bug Hunt"}

\* The reply recommends a pair of the menu
RecommendsMenuPair(s) ==
    /\ RecommendationLine(s) # <<>>
    /\ RecommendationLine(s)[1] \in MenuPlatforms
    /\ RecommendationLine(s)[2] \in MenuChallengeTypes

C35_MenuPairSelectable ==
    (/\ handler = "_handle_schema_selection"
     /\ raised = None
     /\ RecommendsMenuPair(llm_response))
    => /\ platform = RecommendationLine(llm_response)[1]
       /\ challenge_type = RecommendationLine(llm_response)[2]
       /\ phase = "schema_loading"

(***************************************************************************)
(* C36.  With a schema loaded, current_field is empty or a key of the      *)
(* schema that is not in completed_fields; it is empty only when every     *)
(* field of the schema is in completed_fields.                             *)
(***************************************************************************)

\* The keys of the loaded schema
SchemaKeys == IF schema = <<>> THEN {} ELSE Range(schema[1].order)

C36_CurrentFieldOutstanding ==
    schema # <<>> =>
        /\ current_field # None =>
              current_field \in SchemaKeys \ Range(completed_fields)
        /\ current_field = None => SchemaKeys \subseteq Range(completed_fields)

\* Field collection is under way: one field is completed, another is current
C36_Witness ==
    /\ schema # <<>>
    /\ Len(completed_fields) = 1
    /\ current_field \in SchemaKeys \ Range(completed_fields)

(***************************************************************************)
(* C37.  completed_fields holds no field twice and only keys of the loaded *)
(* schema; it is empty while no schema is loaded.                          *)
(***************************************************************************)

C37_CompletedFieldsDistinct ==
    /\ \A i, j \in 1..Len(completed_fields) :
          completed_fields[i] = completed_fields[j] => i = j
    /\ Range(completed_fields) \subseteq SchemaKeys
    /\ schema = <<>> => completed_fields = <<>>

\* Every field of the loaded schema has been completed
C37_Witness ==
    /\ schema # <<>>
    /\ Len(completed_fields) = Len(schema[1].order)

(***************************************************************************)
(* C38.  The reasoning traces whose field is a schema field correspond     *)
(* one-to-one with completed_fields, in the same order, and every          *)
(* completed field has an entry in user_responses.                         *)
(***************************************************************************)

\* The fields of the traces that belong to schema fields, in append order
RECURSIVE SchemaTraceFields(_)
SchemaTraceFields(traces) ==
    IF traces = <<>> THEN <<>>
    ELSE LET rest == SchemaTraceFields(SubSeq(traces, 1, Len(traces) - 1))
         IN  IF Last(traces).field \in SchemaKeys
             THEN Append(rest, Last(traces).field)
             ELSE rest

C38_TracesMatchCompleted ==
    /\ SchemaTraceFields(reasoning_traces) = completed_fields
    /\ Range(completed_fields) \subseteq DOMAIN user_responses

\* Two answers are recorded, after the trace of the scoping dialogue
C38_Witness ==
    /\ Len(completed_fields) = 2
    /\ Len(reasoning_traces) > 2
    /\ SchemaTraceFields(reasoning_traces) = completed_fields

============================================================================
